---- MODULE Spec2Model ----
(***************************************************************************)
(* timelapser: the windowed-recurrence trigger                             *)
(* (TimelapseConfigTrigger.get_next_fire_time, src/timelapser/scheduler.py)*)
(* and the window test it relies on (TimelapseConfig.should_run_now,       *)
(* src/timelapser/configuration.py).                                       *)
(*                                                                         *)
(* A datetime is a record [date, tod, tzinfo]: date is a day number (day 0 *)
(* is a Monday), tod the wall-clock time of day counted in ticks from      *)
(* midnight, tzinfo either "None" (naive) or "tz" (aware).  Python's       *)
(* datetime arithmetic and datetime.combine work on the wall clock and     *)
(* carry tzinfo along exactly as modelled below.                           *)
(*                                                                         *)
(* CameraSpec models the device lock of src/timelapser/cameras.py          *)
(* (ThreadsafeCameraObject.init / exit around every CameraDevice           *)
(* operation) under jobs that run take_picture(config, camera) in separate *)
(* threads on one shared camera.                                           *)
(*                                                                         *)
(* SchedulerSpec models the device registry poll                           *)
(* (CameraDevice.get_available_cameras and its camera_device_cache,        *)
(* src/timelapser/cameras.py) and the control loop that reconciles the     *)
(* active devices and their job sets against each poll.                    *)
(*                                                                         *)
(* LoadSpec models TimelapseConfig(config_dict)                            *)
(* (initialize_from_dict, src/timelapser/configuration.py), FanOutSpec the *)
(* writing of one staged artifact to the configured sinks (store_file of   *)
(* src/timelapser/datastore.py), JobSpec the start of capture jobs         *)
(* (Application.schedule_timelapse and run_threaded_job,                   *)
(* src/timelapser/application.py).                                         *)
(***************************************************************************)
EXTENDS Integers, Sequences, FiniteSets, TLC

\* ---- bounds of the model ------------------------------------------------
\* length of a day in time-of-day ticks (a real day has 86400 seconds; the
\* code only compares times of day and carries into the date)
TicksPerDay == 3
\* largest configured 'frequency', in ticks (more than a whole day)
MaxFrequency == 4
\* the first call starts on day 0 .. MaxStartDate
MaxStartDate == 6
\* the last representable date (datetime.date.max), scaled down
MaxDate == 24

\* number of jobs (threads) that share one camera
NumJobs == 2
\* number of refresh ticks of the control loop that are followed
MaxTicks == 3

\* ---- program constants --------------------------------------------------
DaysPerWeek == 7

VARIABLES
    week_days,          \* TimelapseConfig.week_days (weekday numbers)
    since_tod,          \* TimelapseConfig.since_tod
    till_tod,           \* TimelapseConfig.till_tod
    frequency,          \* TimelapseConfig.frequency
    previous_fire_time, \* argument: << >> is None, <<dt>> a datetime
    now,                \* argument
    next_time,          \* local variable of get_next_fire_time
    run_now,            \* value of should_run_now(next_time) at line 48
    pc                  \* position inside get_next_fire_time

tvars == <<week_days, since_tod, till_tod, frequency, previous_fire_time,
           now, next_time, run_now, pc>>

VARIABLES
    thread_lock,        \* ThreadsafeCameraObject._thread_lock: 0 unlocked,
                        \* otherwise the job whose acquire() locked it
    job_pc,             \* per job: position inside the current operation
    job_op,             \* per job: index of the current operation in JobOps
    job_exc,            \* per job: the exception that ended it, or "none"
    keep_on_device,     \* per job: config.keep_on_camera, the argument of
                        \* download_picture
    picture,            \* per job: its picture on the device: "none" before
                        \* the capture, then "on_device" or "deleted"
    fetched,            \* per job: file_get returned the camera file
    stored              \* per job: the file was saved at store_path

cvars == <<thread_lock, job_pc, job_op, job_exc, keep_on_device, picture,
           fetched, stored>>

\* the part of the camera state that only download_picture and the capture
\* change
files == <<keep_on_device, picture, fetched, stored>>

VARIABLES
    attached,            \* environment: the camera detected at each address
    camera_device_cache, \* CameraDevice.camera_device_cache
    poll_status,         \* how the last get_available_cameras() call ended
    poll_cameras,        \* the cameras it returned
    ticks,               \* refresh ticks completed
    active_device_ids,   \* SchedulerState.active_device_ids
    jobsets,             \* SchedulerState: device_id -> JobSet
    running,             \* the (device, config) jobs that are Running
    adds,                \* per device: JobSets created so far
    releases,            \* per device: handle releases so far
    faulted              \* devices evicted by a fault and not re-added yet

svars == <<attached, camera_device_cache, poll_status, poll_cameras, ticks,
           active_device_ids, jobsets, running, adds, releases, faulted>>

VARIABLES
    config_dict,         \* argument of TimelapseConfig(config_dict): per key
                         \* << >> when the key is missing, <<value>> otherwise
    load_key,            \* position of initialize_from_dict in its key list
    loaded,              \* the attributes of the TimelapseConfig instance
    load_exc             \* the exception that ended the load, or "none"

lvars == <<config_dict, load_key, loaded, load_exc>>

VARIABLES
    sinks,               \* config.datastore: the kinds of the configured
                         \* sinks, in order
    remove_original,     \* argument of store_file
    staged,              \* the staged file exists
    sink_idx,            \* the sink the fan-out is at
    attempt_log,         \* the sinks whose store_file was called, in order
    sink_result,         \* per sink: "none", "ok" or the exception raised
    stored_at,           \* the sinks that hold a copy of the artifact
    fan_pc               \* "storing", "cleanup" or "done"

fvars == <<sinks, remove_original, staged, sink_idx, attempt_log,
           sink_result, stored_at, fan_pc>>

VARIABLES
    next_fire,           \* the fire time the scheduled job is armed for
    instances,           \* running instances of the scheduled job
    threads,             \* running threads started by run_threaded_job
    last_start,          \* the last capture started: "none", or "in" / "out"
                         \* of the window at the instant it started
    skipped,             \* calls of run_threaded_job that started nothing
    fires                \* trigger fires handled so far

jvars == <<next_fire, instances, threads, last_start, skipped, fires>>

\* the variables each part of the model leaves alone
notTrigger == <<cvars, svars, lvars, fvars, jvars>>
notCamera == <<tvars, svars, lvars, fvars, jvars>>
notScheduler == <<tvars, cvars, lvars, fvars, jvars>>
notLoad == <<tvars, cvars, svars, fvars, jvars>>
notFanOut == <<tvars, cvars, svars, lvars, jvars>>
notJob == <<cvars, svars, lvars, fvars>>

TimesOfDay == 0 .. (TicksPerDay - 1)
TzInfos == {"None", "tz"}
StartInstants == [date : 0 .. MaxStartDate, tod : TimesOfDay, tzinfo : TzInfos]

\* ---- datetime helpers ---------------------------------------------------
\* datetime.weekday(): Monday is 0
weekday(t) == t.date % DaysPerWeek

\* previous_fire_time + datetime.timedelta(seconds=frequency)
AddSeconds_nocarry(t, s) ==
    [date   |-> t.date,
     tod    |-> (t.tod + s) % TicksPerDay,
     tzinfo |-> t.tzinfo]

AddSeconds(t, s) ==
    [date   |-> t.date + ((t.tod + s) \div TicksPerDay),
     tod    |-> (t.tod + s) % TicksPerDay,
     tzinfo |-> t.tzinfo]

\* ---- TimelapseConfig.should_run_now --------------------------------------
time_in_range_excl(start, end, tnow) ==
    IF start <= end
    THEN start <= tnow /\ tnow < end
    ELSE start <= tnow \/ tnow < end

time_in_range(start, end, tnow) ==
    IF start <= end
    THEN start <= tnow /\ tnow <= end
    ELSE start <= tnow \/ tnow <= end

should_run_now_any_day(t) ==
    time_in_range(since_tod, till_tod, t.tod)

should_run_now(t) ==
    IF weekday(t) \notin week_days
    THEN FALSE
    ELSE IF ~time_in_range(since_tod, till_tod, t.tod)
         THEN FALSE
         ELSE TRUE

\* ---- expressions of get_next_fire_time ------------------------------------
\* since_tod < till_tod < next_time.time()
PastTill_unconditional(t) == till_tod < t.tod

PastTill_nonwrapping(t) == since_tod < till_tod

PastTill(t) == since_tod < till_tod /\ till_tod < t.tod

\* datetime.combine(next_time.date() + timedelta(days=1), datetime.time())
NextMidnight(t) == [date |-> t.date + 1, tod |-> 0, tzinfo |-> "None"]

\* datetime.combine(next_time.date() + timedelta(days=1), next_time.timetz())
NextDay_skip(t) == [date |-> t.date + 2, tod |-> t.tod, tzinfo |-> t.tzinfo]

NextDay(t) == [date |-> t.date + 1, tod |-> t.tod, tzinfo |-> t.tzinfo]

\* datetime.combine(next_time.date(), since_tod, tzinfo=next_time.tzinfo)
AtSince_till(t) == [date |-> t.date, tod |-> till_tod, tzinfo |-> t.tzinfo]

AtSince(t) == [date |-> t.date, tod |-> since_tod, tzinfo |-> t.tzinfo]

\* ---- the call ---------------------------------------------------------------
Jobs == 1 .. NumJobs

\* no job thread exists
NoCameraJobs ==
    /\ thread_lock = 0
    /\ job_pc = [j \in Jobs |-> "done"]
    /\ job_op = [j \in Jobs |-> 1]
    /\ job_exc = [j \in Jobs |-> "none"]
    /\ keep_on_device = [j \in Jobs |-> TRUE]
    /\ picture = [j \in Jobs |-> "none"]
    /\ fetched = [j \in Jobs |-> FALSE]
    /\ stored = [j \in Jobs |-> FALSE]

\* the cameras that exist, named by serial number, and the addresses they can
\* be attached to, in autodetection order
Cameras == {"camA", "camB"}

NoCamera == "none"

AddressList == <<"usb:001", "usb:002">>

Addresses == {AddressList[i] : i \in 1 .. Len(AddressList)}

\* nothing attached, nothing cached, nothing scheduled
NoScheduler ==
    /\ attached = [a \in Addresses |-> NoCamera]
    /\ camera_device_cache = [a \in Addresses |-> NoCamera]
    /\ poll_status = "none"
    /\ poll_cameras = {}
    /\ ticks = 0
    /\ active_device_ids = {}
    /\ jobsets = [d \in {} |-> << >>]
    /\ running = {}
    /\ adds = [d \in Cameras |-> 0]
    /\ releases = [d \in Cameras |-> 0]
    /\ faulted = {}

\* ---- TimelapseConfig: loading --------------------------------------------
\* configuration.py:114-115  the keys in the order initialize_from_dict
\* visits them
KeyList == <<"week_days", "since_tod", "till_tod", "frequency", "camera_sn",
             "keep_on_camera", "datastore">>

\* configuration.py:104-112  weekday_map
weekday_map == [mon |-> 0, tue |-> 1, wed |-> 2, thu |-> 3, fri |-> 4,
                sat |-> 5, sun |-> 6]

\* the weekday names a configuration file is loaded with, and str.lower() of
\* each of them
lower == [Mon |-> "mon", mon |-> "mon", TUE |-> "tue", Sun |-> "sun",
          Xyz |-> "xyz", Monday |-> "monday"]

\* configuration.py:55-76  DEFAULT_TIMELAPSE_CONFIG as initialize_from_dict
\* stores it: the attributes after line 80
DefaultFrequency == 10

DefaultDatastore == [has_type |-> TRUE, type |-> "filesystem",
                     has_store_path |-> TRUE, has_token |-> FALSE]

DefaultConfig ==
    [week_days      |-> <<0, 1, 2, 3, 4, 5, 6>>,
     since_tod      |-> 0,
     till_tod       |-> TicksPerDay - 1,
     frequency      |-> DefaultFrequency,
     camera_sn      |-> "",
     keep_on_camera |-> TRUE,
     datastore      |-> <<DefaultDatastore>>]

\* no configuration is being loaded
NoLoad ==
    /\ config_dict = [k \in {} |-> << >>]
    /\ load_key = 1
    /\ loaded = DefaultConfig
    /\ load_exc = "none"

\* no capture is being persisted
NoFanOut ==
    /\ sinks = << >>
    /\ remove_original = TRUE
    /\ staged = FALSE
    /\ sink_idx = 1
    /\ attempt_log = << >>
    /\ sink_result = << >>
    /\ stored_at = {}
    /\ fan_pc = "done"

\* no job is scheduled
NoJob ==
    /\ next_fire = [date |-> 0, tod |-> 0]
    /\ instances = 0
    /\ threads = 0
    /\ last_start = "none"
    /\ skipped = 0
    /\ fires = 0

TriggerInit ==
    /\ week_days \in SUBSET (0 .. (DaysPerWeek - 1))
    /\ since_tod \in TimesOfDay
    /\ till_tod \in TimesOfDay
    /\ frequency \in 1 .. MaxFrequency
    /\ now \in StartInstants
    /\ previous_fire_time \in {<< >>, <<now>>}
    /\ next_time = now
    /\ run_now = FALSE
    /\ pc = "start"
    /\ NoCameraJobs
    /\ NoScheduler
    /\ NoLoad
    /\ NoFanOut
    /\ NoJob

\* lines 41-45
Begin ==
    /\ pc = "start"
    /\ previous_fire_time' =
           IF previous_fire_time = << >> THEN <<now>> ELSE previous_fire_time
    /\ next_time' = AddSeconds(previous_fire_time'[1], frequency)
    /\ pc' = "check"
    /\ UNCHANGED <<week_days, since_tod, till_tod, frequency, now, run_now>>
    /\ UNCHANGED notTrigger

\* line 48: the call of should_run_now(next_time)
CheckWindow ==
    /\ pc = "check"
    /\ run_now' = should_run_now(next_time)
    /\ pc' = "checked"
    /\ UNCHANGED <<week_days, since_tod, till_tod, frequency,
                   previous_fire_time, now, next_time>>
    /\ UNCHANGED notTrigger

\* lines 48, 66: the candidate is inside the window
ReturnCandidate ==
    /\ pc = "checked"
    /\ run_now
    /\ pc' = "done"
    /\ UNCHANGED <<week_days, since_tod, till_tod, frequency,
                   previous_fire_time, now, next_time, run_now>>
    /\ UNCHANGED notTrigger

\* lines 48, 52-53: the candidate is outside the window
PastTillJump ==
    /\ pc = "checked"
    /\ ~run_now
    /\ next_time' = IF PastTill(next_time) THEN NextMidnight(next_time)
                                           ELSE next_time
    /\ pc' = "search"
    /\ UNCHANGED <<week_days, since_tod, till_tod, frequency,
                   previous_fire_time, now, run_now>>
    /\ UNCHANGED notTrigger

\* lines 56-57: one iteration of the weekday loop; date arithmetic past
\* datetime.date.max raises OverflowError
WeekdayStep ==
    /\ pc = "search"
    /\ weekday(next_time) \notin week_days
    /\ IF next_time.date >= MaxDate
       THEN /\ pc' = "raised"
            /\ UNCHANGED next_time
       ELSE /\ next_time' = NextDay(next_time)
            /\ pc' = "search"
    /\ UNCHANGED <<week_days, since_tod, till_tod, frequency,
                   previous_fire_time, now, run_now>>
    /\ UNCHANGED notTrigger

\* lines 56, 60-66: the loop ends, the time of day is set, the call returns
FixTime ==
    /\ pc = "search"
    /\ weekday(next_time) \in week_days
    /\ next_time' = AtSince(next_time)
    /\ pc' = "done"
    /\ UNCHANGED <<week_days, since_tod, till_tod, frequency,
                   previous_fire_time, now, run_now>>
    /\ UNCHANGED notTrigger

TriggerNext ==
    \/ Begin
    \/ CheckWindow
    \/ ReturnCandidate
    \/ PastTillJump
    \/ WeekdayStep
    \/ FixTime

TriggerSpec == TriggerInit /\ [][TriggerNext]_tvars

\* ---- the device lock and the jobs that share a camera ------------------------
\* take_picture(config, camera): the CameraDevice operations a job runs, in
\* order (application.py:45-48)
JobOps == <<"set_capture_target", "take_picture", "download_picture">>

CameraTriggerIdle ==
    /\ week_days = {}
    /\ since_tod = 0
    /\ till_tod = 0
    /\ frequency = 1
    /\ now = [date |-> 0, tod |-> 0, tzinfo |-> "None"]
    /\ previous_fire_time = << >>
    /\ next_time = now
    /\ run_now = FALSE
    /\ pc = "start"

\* every job thread is about to call its first operation
CameraInit ==
    /\ thread_lock = 0
    /\ job_pc = [j \in Jobs |-> "call_init"]
    /\ job_op = [j \in Jobs |-> 1]
    /\ job_exc = [j \in Jobs |-> "none"]
    /\ keep_on_device \in [Jobs -> BOOLEAN]
    /\ picture = [j \in Jobs |-> "none"]
    /\ fetched = [j \in Jobs |-> FALSE]
    /\ stored = [j \in Jobs |-> FALSE]
    /\ CameraTriggerIdle
    /\ NoScheduler
    /\ NoLoad
    /\ NoFanOut
    /\ NoJob

\* the job ends with exception e
Raise(j, e) ==
    /\ job_pc' = [job_pc EXCEPT ![j] = "raised"]
    /\ job_exc' = [job_exc EXCEPT ![j] = e]

\* cameras.py:48  self._thread_lock.acquire(), blocking
Acquire(j) ==
    /\ job_pc[j] = "call_init"
    /\ thread_lock = 0
    /\ thread_lock' = j
    /\ job_pc' = [job_pc EXCEPT ![j] = "super_init"]
    /\ UNCHANGED <<job_op, job_exc>>
    /\ UNCHANGED files
    /\ UNCHANGED notCamera

\* cameras.py:49-50  the gphoto2 init succeeds, init() returns
InitOk(j) ==
    /\ job_pc[j] = "super_init"
    /\ job_pc' = [job_pc EXCEPT ![j] = "section"]
    /\ UNCHANGED <<thread_lock, job_op, job_exc>>
    /\ UNCHANGED files
    /\ UNCHANGED notCamera

\* cameras.py:51-56  GPhoto2Error with code -53
InitBusy(j) ==
    /\ job_pc[j] = "super_init"
    /\ thread_lock' = 0
    /\ Raise(j, "CameraDeviceBusy")
    /\ UNCHANGED job_op
    /\ UNCHANGED files
    /\ UNCHANGED notCamera

\* cameras.py:51-58  GPhoto2Error with code -2
InitError(j) ==
    /\ job_pc[j] = "super_init"
    /\ thread_lock' = 0
    /\ Raise(j, "CameraDeviceError")
    /\ UNCHANGED job_op
    /\ UNCHANGED files
    /\ UNCHANGED notCamera

\* cameras.py:51-58  GPhoto2Error with any other code: the lock is released,
\* neither branch raises, init() returns None to its caller
InitOtherError(j) ==
    /\ job_pc[j] = "super_init"
    /\ thread_lock' = 0
    /\ job_pc' = [job_pc EXCEPT ![j] = "section"]
    /\ UNCHANGED <<job_op, job_exc>>
    /\ UNCHANGED files
    /\ UNCHANGED notCamera

\* cameras.py:191-194, 199  the gphoto2 calls of set_capture_target or of
\* take_picture succeed; the capture leaves a picture on the device
Body(j) ==
    /\ job_pc[j] = "section"
    /\ JobOps[job_op[j]] # "download_picture"
    /\ job_pc' = [job_pc EXCEPT ![j] = "call_exit"]
    /\ picture' = IF JobOps[job_op[j]] = "take_picture"
                  THEN [picture EXCEPT ![j] = "on_device"]
                  ELSE picture
    /\ UNCHANGED <<thread_lock, job_op, job_exc, keep_on_device, fetched,
                   stored>>
    /\ UNCHANGED notCamera

\* cameras.py:206  download_picture: file_get returns the camera file
FileGet(j) ==
    /\ job_pc[j] = "section"
    /\ JobOps[job_op[j]] = "download_picture"
    /\ ~fetched[j]
    /\ fetched' = [fetched EXCEPT ![j] = TRUE]
    /\ UNCHANGED <<thread_lock, job_pc, job_op, job_exc, keep_on_device,
                   picture, stored>>
    /\ UNCHANGED notCamera

\* cameras.py:207  gp_file_save succeeds, check_result does not raise
FileSave(j) ==
    /\ job_pc[j] = "section"
    /\ JobOps[job_op[j]] = "download_picture"
    /\ fetched[j]
    /\ ~stored[j]
    /\ stored' = [stored EXCEPT ![j] = TRUE]
    /\ UNCHANGED <<thread_lock, job_pc, job_op, job_exc, keep_on_device,
                   picture, fetched>>
    /\ UNCHANGED notCamera

\* cameras.py:209-210  not keep_on_device: file_delete removes the picture
FileDelete_unsaved(j) ==
    /\ job_pc[j] = "section"
    /\ JobOps[job_op[j]] = "download_picture"
    /\ fetched[j]
    /\ ~keep_on_device[j]
    /\ picture' = [picture EXCEPT ![j] = "deleted"]
    /\ job_pc' = [job_pc EXCEPT ![j] = "call_exit"]
    /\ UNCHANGED <<thread_lock, job_op, job_exc, keep_on_device, fetched,
                   stored>>
    /\ UNCHANGED notCamera

FileDelete(j) ==
    /\ job_pc[j] = "section"
    /\ JobOps[job_op[j]] = "download_picture"
    /\ stored[j]
    /\ ~keep_on_device[j]
    /\ picture' = [picture EXCEPT ![j] = "deleted"]
    /\ job_pc' = [job_pc EXCEPT ![j] = "call_exit"]
    /\ UNCHANGED <<thread_lock, job_op, job_exc, keep_on_device, fetched,
                   stored>>
    /\ UNCHANGED notCamera

\* cameras.py:209  keep_on_device: the picture is left on the device
FileKeep(j) ==
    /\ job_pc[j] = "section"
    /\ JobOps[job_op[j]] = "download_picture"
    /\ stored[j]
    /\ keep_on_device[j]
    /\ job_pc' = [job_pc EXCEPT ![j] = "call_exit"]
    /\ UNCHANGED <<thread_lock, job_op, job_exc>>
    /\ UNCHANGED files
    /\ UNCHANGED notCamera

\* cameras.py:191-194, 199, 206-210  a gphoto2 call of the operation raises
\* (in download_picture: file_get, the check of gp_file_save, or
\* file_delete): exit() is not reached
BodyRaises(j) ==
    /\ job_pc[j] = "section"
    /\ Raise(j, "GPhoto2Error")
    /\ UNCHANGED <<thread_lock, job_op>>
    /\ UNCHANGED files
    /\ UNCHANGED notCamera

\* cameras.py:60-63  exit(): release() of an unlocked lock raises
\* RuntimeError; otherwise the lock is released whoever acquired it and the
\* job goes on to its next operation
Exit(j) ==
    /\ job_pc[j] = "call_exit"
    /\ IF thread_lock = 0
       THEN /\ Raise(j, "RuntimeError")
            /\ UNCHANGED <<thread_lock, job_op>>
       ELSE /\ thread_lock' = 0
            /\ IF job_op[j] < Len(JobOps)
               THEN /\ job_op' = [job_op EXCEPT ![j] = job_op[j] + 1]
                    /\ job_pc' = [job_pc EXCEPT ![j] = "call_init"]
               ELSE /\ job_pc' = [job_pc EXCEPT ![j] = "done"]
                    /\ UNCHANGED job_op
            /\ UNCHANGED job_exc
    /\ UNCHANGED files
    /\ UNCHANGED notCamera

CameraNext ==
    \/ \E j \in Jobs : Acquire(j)
    \/ \E j \in Jobs : InitOk(j)
    \/ \E j \in Jobs : InitBusy(j)
    \/ \E j \in Jobs : InitError(j)
    \/ \E j \in Jobs : InitOtherError(j)
    \/ \E j \in Jobs : Body(j)
    \/ \E j \in Jobs : FileGet(j)
    \/ \E j \in Jobs : FileSave(j)
    \/ \E j \in Jobs : FileDelete(j)
    \/ \E j \in Jobs : FileKeep(j)
    \/ \E j \in Jobs : BodyRaises(j)
    \/ \E j \in Jobs : Exit(j)

CameraSpec == CameraInit /\ [][CameraNext]_<<tvars, cvars>>

\* ---- the device registry and the control loop ---------------------------------
\* the loaded configurations, in order: camera_sn '' (the default) is unbound
ConfigList == <<[camera_sn |-> ""], [camera_sn |-> "camA"],
                [camera_sn |-> "camB"]>>

ConfigIds == 1 .. Len(ConfigList)

\* what constructing a CameraDevice for a detected camera can do
OpenOutcomes == {"ok", "busy", "error"}

SchedulerInit ==
    /\ NoScheduler
    /\ NoCameraJobs
    /\ CameraTriggerIdle
    /\ NoLoad
    /\ NoFanOut
    /\ NoJob

\* environment: a camera is attached at a free address
Plug(a, cam) ==
    /\ attached[a] = NoCamera
    /\ \A b \in Addresses : attached[b] # cam
    /\ attached' = [attached EXCEPT ![a] = cam]
    /\ UNCHANGED <<camera_device_cache, poll_status, poll_cameras, ticks,
                   active_device_ids, jobsets, running, adds, releases,
                   faulted>>
    /\ UNCHANGED notScheduler

\* environment: the camera at an address is detached
Unplug(a) ==
    /\ attached[a] # NoCamera
    /\ attached' = [attached EXCEPT ![a] = NoCamera]
    /\ UNCHANGED <<camera_device_cache, poll_status, poll_cameras, ticks,
                   active_device_ids, jobsets, running, adds, releases,
                   faulted>>
    /\ UNCHANGED notScheduler

\* cameras.py:109-133  the loop of get_available_cameras over the detected
\* cameras from position i on; outcome[a] is what CameraDevice(name, a) does
\* when it is constructed
RECURSIVE ScanDetected(_, _, _, _)
ScanDetected(i, cache, cams, outcome) ==
    IF i > Len(AddressList)
    THEN [cache |-> cache, cameras |-> cams, status |-> "ok"]
    ELSE LET a == AddressList[i]
             name == attached[a]
             \* lines 111-119: cached camera, dropped when the name differs
             kept == IF cache[a] # NoCamera /\ cache[a] # name
                     THEN [cache EXCEPT ![a] = NoCamera]
                     ELSE cache
         IN  IF name = NoCamera
             THEN ScanDetected(i + 1, cache, cams, outcome)
             ELSE IF kept[a] # NoCamera
             THEN ScanDetected(i + 1, kept, cams \cup {kept[a]}, outcome)
             \* lines 122-129: a new CameraDevice
             ELSE IF outcome[a] = "busy"
             THEN ScanDetected(i + 1, kept, cams, outcome)
             ELSE IF outcome[a] = "error"
             THEN [cache |-> kept, cameras |-> {}, status |-> "raised"]
             ELSE ScanDetected(i + 1, [kept EXCEPT ![a] = name],
                               cams \cup {name}, outcome)

\* cameras.py:101-148  get_available_cameras(): autodetection may raise
\* GPhoto2Error before anything else happens
get_available_cameras(detect_ok, outcome) ==
    IF detect_ok
    THEN ScanDetected(1, camera_device_cache, {}, outcome)
    ELSE [cache |-> camera_device_cache, cameras |-> {}, status |-> "raised"]

\* the configs applicable to device d: bound to d, or unbound
Applicable_bound_only(d) ==
    SelectSeq([i \in ConfigIds |-> i],
              LAMBDA i : ConfigList[i].camera_sn = d)

Applicable(d) ==
    SelectSeq([i \in ConfigIds |-> i],
              LAMBDA i : ConfigList[i].camera_sn = d
                             \/ ConfigList[i].camera_sn = "")

\* the JobSet map after the devices in gone are discarded and the devices in
\* new get a fresh JobSet
Rebuild_keep(gone, new) ==
    [d \in DOMAIN jobsets \cup new |->
        IF d \in new THEN Applicable(d) ELSE jobsets[d]]

Rebuild(gone, new) ==
    [d \in (DOMAIN jobsets \ gone) \cup new |->
        IF d \in new THEN Applicable(d) ELSE jobsets[d]]

\* one refresh tick of the control loop: poll the registry, then reconcile
\* the active devices against the poll
RefreshTick ==
    /\ ticks < MaxTicks
    /\ \E detect_ok \in BOOLEAN : \E outcome \in [Addresses -> OpenOutcomes] :
          LET r == get_available_cameras(detect_ok, outcome)
              current == IF r.status = "ok" THEN r.cameras ELSE {}
              removed == active_device_ids \ current
              added == current \ active_device_ids
          IN  /\ camera_device_cache' = r.cache
              /\ poll_status' = r.status
              /\ poll_cameras' = r.cameras
              /\ jobsets' = Rebuild(removed, added)
              /\ active_device_ids' = (active_device_ids \ removed) \cup added
              /\ releases' = [d \in Cameras |->
                                 IF d \in removed THEN releases[d] + 1
                                                  ELSE releases[d]]
              /\ adds' = [d \in Cameras |->
                             IF d \in added THEN adds[d] + 1 ELSE adds[d]]
              /\ faulted' = faulted \ added
    /\ ticks' = ticks + 1
    /\ UNCHANGED <<attached, running>>
    /\ UNCHANGED notScheduler

\* an armed trigger of device d fires and its job starts Running
Fire(d, c) ==
    /\ d \in DOMAIN jobsets
    /\ \E k \in 1 .. Len(jobsets[d]) : jobsets[d][k] = c
    /\ <<d, c>> \notin running
    /\ running' = running \cup {<<d, c>>}
    /\ UNCHANGED <<attached, camera_device_cache, poll_status, poll_cameras,
                   ticks, active_device_ids, jobsets, adds, releases,
                   faulted>>
    /\ UNCHANGED notScheduler

\* a Running job finishes
JobDone(d, c) ==
    /\ <<d, c>> \in running
    /\ running' = running \ {<<d, c>>}
    /\ UNCHANGED <<attached, camera_device_cache, poll_status, poll_cameras,
                   ticks, active_device_ids, jobsets, adds, releases,
                   faulted>>
    /\ UNCHANGED notScheduler

\* capture or download of a Running job raises a device fault: the device is
\* evicted at once
JobFault_keep(d, c) ==
    /\ <<d, c>> \in running
    /\ running' = running \ {<<d, c>>}
    /\ faulted' = faulted \cup {d}
    /\ UNCHANGED <<attached, camera_device_cache, poll_status, poll_cameras,
                   ticks, active_device_ids, jobsets, adds, releases>>
    /\ UNCHANGED notScheduler

JobFault(d, c) ==
    /\ <<d, c>> \in running
    /\ running' = running \ {<<d, c>>}
    /\ faulted' = faulted \cup {d}
    /\ IF d \in active_device_ids
       THEN /\ jobsets' = Rebuild({d}, {})
            /\ active_device_ids' = active_device_ids \ {d}
            /\ releases' = [releases EXCEPT ![d] = releases[d] + 1]
       ELSE UNCHANGED <<jobsets, active_device_ids, releases>>
    /\ UNCHANGED <<attached, camera_device_cache, poll_status, poll_cameras,
                   ticks, adds>>
    /\ UNCHANGED notScheduler

SchedulerNext ==
    \/ \E a \in Addresses : \E cam \in Cameras : Plug(a, cam)
    \/ \E a \in Addresses : Unplug(a)
    \/ RefreshTick
    \/ \E d \in Cameras : \E c \in ConfigIds : Fire(d, c)
    \/ \E d \in Cameras : \E c \in ConfigIds : JobDone(d, c)
    \/ \E d \in Cameras : \E c \in ConfigIds : JobFault(d, c)

SchedulerSpec == SchedulerInit /\ [][SchedulerNext]_<<tvars, cvars, svars>>

\* ---- loading one TimelapseConfig ---------------------------------------------
\* the values a configuration file gives for each key
WeekDaysInputs ==
    {<< >>} \cup {<<w>> : w \in {<< >>, <<"Mon">>, <<"mon", "TUE">>,
                                 <<"Sun", "Xyz">>, <<"Monday">>}}

\* a time of day is given by its hour; the hour TicksPerDay is the first one
\* datetime.time() rejects
TodInputs == {<< >>} \cup {<<h>> : h \in 0 .. TicksPerDay}

DatastoreInputs ==
    {<< >>} \cup
    {<<d>> : d \in
        {[has_type |-> TRUE, type |-> "filesystem", has_store_path |-> TRUE,
          has_token |-> FALSE],
         [has_type |-> TRUE, type |-> "dropbox", has_store_path |-> TRUE,
          has_token |-> TRUE],
         [has_type |-> FALSE, type |-> "", has_store_path |-> TRUE,
          has_token |-> FALSE],
         [has_type |-> TRUE, type |-> "ftp", has_store_path |-> TRUE,
          has_token |-> FALSE],
         [has_type |-> TRUE, type |-> "filesystem", has_store_path |-> FALSE,
          has_token |-> FALSE],
         [has_type |-> TRUE, type |-> "dropbox", has_store_path |-> TRUE,
          has_token |-> FALSE]}}

\* configuration.py:50-53
DATASTORE_TYPES == {"filesystem", "dropbox"}

\* configuration.py:78-84  TimelapseConfig(config_dict): the defaults have
\* been stored, initialize_from_dict(config_dict) is about to start
LoadInit ==
    /\ config_dict \in [week_days : WeekDaysInputs,
                        since_tod : TodInputs,
                        till_tod : TodInputs,
                        frequency : {<< >>, <<2>>},
                        camera_sn : {<< >>, <<"camA">>},
                        keep_on_camera : {<< >>, <<FALSE>>},
                        datastore : DatastoreInputs]
    /\ load_key = 1
    /\ loaded = DefaultConfig
    /\ load_exc = "none"
    /\ CameraTriggerIdle
    /\ NoCameraJobs
    /\ NoScheduler
    /\ NoFanOut
    /\ NoJob

\* the loop is at key k
AtKey(k) ==
    /\ load_exc = "none"
    /\ load_key <= Len(KeyList)
    /\ KeyList[load_key] = k

\* configuration.py:163-164  except KeyError: continue
Continue ==
    /\ load_key' = load_key + 1
    /\ UNCHANGED <<loaded, load_exc>>

\* configuration.py:162  self.__setattr__(key, value)
SetAttr(k, value) ==
    /\ loaded' = [loaded EXCEPT ![k] = value]
    /\ load_key' = load_key + 1
    /\ UNCHANGED load_exc

\* an exception that no handler of initialize_from_dict catches
LoadRaises(e) ==
    /\ load_exc' = e
    /\ UNCHANGED <<loaded, load_key>>

\* configuration.py:126-128  week_days: a missing key and a name that is not
\* in weekday_map both raise KeyError
LoadWeekDays ==
    /\ AtKey("week_days")
    /\ IF config_dict.week_days = << >>
       THEN Continue
       ELSE LET names == config_dict.week_days[1]
            IN  IF \E i \in 1 .. Len(names) :
                       lower[names[i]] \notin DOMAIN weekday_map
                THEN Continue
                ELSE SetAttr("week_days",
                             [i \in 1 .. Len(names) |->
                                 weekday_map[lower[names[i]]]])
    /\ UNCHANGED config_dict
    /\ UNCHANGED notLoad

\* configuration.py:118-124  since_tod, till_tod: datetime.time() raises
\* ValueError for an hour out of range
LoadTimeOfDay(k) ==
    /\ AtKey(k)
    /\ IF config_dict[k] = << >>
       THEN Continue
       ELSE IF config_dict[k][1] \notin TimesOfDay
       THEN LoadRaises("ValueError")
       ELSE SetAttr(k, config_dict[k][1])
    /\ UNCHANGED config_dict
    /\ UNCHANGED notLoad

\* configuration.py:130-156  datastore: TimelapseConfigError is not a KeyError
\* and leaves initialize_from_dict
LoadDatastore ==
    /\ AtKey("datastore")
    /\ IF config_dict.datastore = << >>
       THEN Continue
       ELSE LET d == config_dict.datastore[1]
            IN  IF \/ ~d.has_type
                   \/ d.type \notin DATASTORE_TYPES
                   \/ ~d.has_store_path
                   \/ d.type = "dropbox" /\ ~d.has_token
                THEN LoadRaises("TimelapseConfigError")
                ELSE SetAttr("datastore", <<d>>)
    /\ UNCHANGED config_dict
    /\ UNCHANGED notLoad

\* configuration.py:159-160  the other keys are stored as they are
LoadPlain(k) ==
    /\ AtKey(k)
    /\ IF config_dict[k] = << >>
       THEN Continue
       ELSE SetAttr(k, config_dict[k][1])
    /\ UNCHANGED config_dict
    /\ UNCHANGED notLoad

LoadNext ==
    \/ LoadWeekDays
    \/ \E k \in {"since_tod", "till_tod"} : LoadTimeOfDay(k)
    \/ LoadDatastore
    \/ \E k \in {"frequency", "camera_sn", "keep_on_camera"} : LoadPlain(k)

LoadSpec == LoadInit /\ [][LoadNext]_<<tvars, cvars, svars, lvars>>

\* ---- fan-out of one staged artifact to the configured sinks ------------------
\* most sinks one config is given
MaxSinks == 3

SinkKinds == {"filesystem", "dropbox"}

\* datastore.py:64, 66, 97  shutil.move, shutil.copyfile and open(file) need
\* the file: without it store_file raises
CanStore == staged

\* datastore.py:62-66, 112-114  after a successful store_file the file is gone
\* exactly when remove_original is true
StagedAfterStore == staged /\ ~remove_original

\* datastore.py:64-66, 97-110  the exception a failing store_file raises: the
\* missing file is reported by shutil or open(), a failed upload is turned
\* into DataSaveError, a failed move or copy is raised as it is
StoreError(kind) ==
    IF ~staged THEN "FileNotFoundError"
    ELSE IF kind = "dropbox" THEN "DataSaveError"
    ELSE "OSError"

\* a capture has been staged and is about to be written to the sinks
FanOutInit ==
    /\ sinks \in UNION {[1 .. n -> SinkKinds] : n \in 1 .. MaxSinks}
    /\ remove_original \in BOOLEAN
    /\ staged = TRUE
    /\ sink_idx = 1
    /\ attempt_log = << >>
    /\ sink_result = [i \in 1 .. Len(sinks) |-> "none"]
    /\ stored_at = {}
    /\ fan_pc = "storing"
    /\ CameraTriggerIdle
    /\ NoCameraJobs
    /\ NoScheduler
    /\ NoLoad
    /\ NoJob

\* a failed store ends the fan-out
NextSink_abort ==
    /\ sink_idx' = sink_idx + 1
    /\ fan_pc' = IF sink_result'[sink_idx] # "ok" \/ sink_idx = Len(sinks)
                 THEN "cleanup" ELSE "storing"

\* the fan-out goes on to the next sink, or to the cleanup after the last one
NextSink ==
    /\ sink_idx' = sink_idx + 1
    /\ fan_pc' = IF sink_idx = Len(sinks) THEN "cleanup" ELSE "storing"

\* store_file of the current sink returns
StoreOk ==
    /\ fan_pc = "storing"
    /\ CanStore
    /\ attempt_log' = Append(attempt_log, sink_idx)
    /\ sink_result' = [sink_result EXCEPT ![sink_idx] = "ok"]
    /\ stored_at' = stored_at \cup {sink_idx}
    /\ staged' = StagedAfterStore
    /\ NextSink
    /\ UNCHANGED <<sinks, remove_original>>
    /\ UNCHANGED notFanOut

\* store_file of the current sink raises (the write fails, or the staged file
\* is missing): the error is reported and the fan-out goes on
StoreFails ==
    /\ fan_pc = "storing"
    /\ attempt_log' = Append(attempt_log, sink_idx)
    /\ sink_result' = [sink_result EXCEPT
                           ![sink_idx] = StoreError(sinks[sink_idx])]
    /\ NextSink
    /\ UNCHANGED <<sinks, remove_original, staged, stored_at>>
    /\ UNCHANGED notFanOut

\* after the last sink the staged artifact is deleted
Cleanup ==
    /\ fan_pc = "cleanup"
    /\ staged' = FALSE
    /\ fan_pc' = "done"
    /\ UNCHANGED <<sinks, remove_original, sink_idx, attempt_log,
                   sink_result, stored_at>>
    /\ UNCHANGED notFanOut

FanOutNext ==
    \/ StoreOk
    \/ StoreFails
    \/ Cleanup

FanOutSpec == FanOutInit /\ [][FanOutNext]_<<tvars, cvars, svars, lvars, fvars>>

\* ---- the scheduled capture job ------------------------------------------------
\* trigger fires that are followed
MaxFires == 4
\* the last day a fire time falls on
MaxJobDate == 1
\* datetime.now() is finer than the whole seconds of since_tod and till_tod:
\* an instant is a tick plus a fraction 0 .. SubTicks - 1 of a tick
SubTicks == 2
\* application.py:290  add_job is called without max_instances: the scheduler
\* runs one instance of the job at a time and drops a fire that finds it
\* running
MaxInstances == 1

JobInstants == [date : 0 .. MaxJobDate, tod : TimesOfDay]

\* application.py:142-170  should_run_now() at the instant t plus the fraction
\* frac of a tick
should_run_now_at(t, frac) ==
    IF weekday(t) \notin week_days
    THEN FALSE
    ELSE time_in_range(SubTicks * since_tod, SubTicks * till_tod,
                       SubTicks * t.tod + frac)

\* application.py:242-253  the fire times the trigger arms the job for pass
\* should_run_now or are at since_tod on an allowed weekday
FireTimes == {t \in JobInstants : should_run_now(t)}

\* application.py:296-302  Application.run(): one config on one camera is
\* scheduled and the scheduler started
JobInit ==
    /\ week_days \in (SUBSET (0 .. MaxJobDate)) \ {{}}
    /\ since_tod \in TimesOfDay
    /\ till_tod \in TimesOfDay
    /\ frequency = 1
    /\ now = [date |-> 0, tod |-> 0, tzinfo |-> "None"]
    /\ previous_fire_time = << >>
    /\ next_time = now
    /\ run_now = FALSE
    /\ pc = "start"
    /\ next_fire \in FireTimes
    /\ instances = 0
    /\ threads = 0
    /\ last_start = "none"
    /\ skipped = 0
    /\ fires = 0
    /\ NoCameraJobs
    /\ NoScheduler
    /\ NoLoad
    /\ NoFanOut

\* application.py:290, 43-49  the scheduler calls take_picture(config, camera)
\* for the fire time the job is armed for, a fraction of a tick after it at
\* the latest; take_picture goes straight to the camera; the job is armed for
\* its next fire time
ScheduledFire ==
    /\ fires < MaxFires
    /\ \E frac \in 0 .. (SubTicks - 1) :
          IF instances < MaxInstances
          THEN /\ instances' = instances + 1
               /\ last_start' = IF should_run_now_at(next_fire, frac)
                                THEN "in" ELSE "out"
          ELSE UNCHANGED <<instances, last_start>>
    /\ next_fire' \in FireTimes
    /\ fires' = fires + 1
    /\ UNCHANGED <<threads, skipped>>
    /\ UNCHANGED tvars
    /\ UNCHANGED notJob

\* application.py:279-286  run_threaded_job(take_picture, config, camera)
\* called at an instant: inside the window a thread is started, outside it
\* nothing is
run_threaded_job ==
    /\ fires < MaxFires
    /\ \E t \in JobInstants : \E frac \in 0 .. (SubTicks - 1) :
          IF should_run_now_at(t, frac)
          THEN /\ threads' = threads + 1
               /\ last_start' = "in"
               /\ UNCHANGED skipped
          ELSE /\ skipped' = skipped + 1
               /\ UNCHANGED <<threads, last_start>>
    /\ fires' = fires + 1
    /\ UNCHANGED <<next_fire, instances>>
    /\ UNCHANGED tvars
    /\ UNCHANGED notJob

\* application.py:43-49  take_picture returns or raises in the scheduler's
\* worker
InstanceEnds ==
    /\ instances > 0
    /\ instances' = instances - 1
    /\ UNCHANGED <<next_fire, threads, last_start, skipped, fires>>
    /\ UNCHANGED tvars
    /\ UNCHANGED notJob

\* application.py:43-49  take_picture returns or raises in a thread of
\* run_threaded_job
ThreadEnds ==
    /\ threads > 0
    /\ threads' = threads - 1
    /\ UNCHANGED <<next_fire, instances, last_start, skipped, fires>>
    /\ UNCHANGED tvars
    /\ UNCHANGED notJob

JobNext ==
    \/ ScheduledFire
    \/ run_threaded_job
    \/ InstanceEnds
    \/ ThreadEnds

JobSpec ==
    JobInit /\ [][JobNext]_<<tvars, cvars, svars, lvars, fvars, jvars>>

\* ---- vocabulary of the properties -------------------------------------------
\* the call has returned next_time
Returned == pc = "done"

\* the previous fire time the call works from (now, on the first scheduling)
Prev == previous_fire_time[1]

\* candidate = previous_fire_time + frequency, as a date and a time of day
CandDate == Prev.date + ((Prev.tod + frequency) \div TicksPerDay)

CandTod == (Prev.tod + frequency) % TicksPerDay

\* the weekday of day d is one of the allowed weekdays
Allowed(d) == (d % DaysPerWeek) \in week_days

\* the times of day inside the window: [since, till], or
\* [since, 24:00) \cup [00:00, till] when the window wraps midnight
WindowTimes ==
    IF since_tod <= till_tod
    THEN since_tod .. till_tod
    ELSE (since_tod .. (TicksPerDay - 1)) \cup (0 .. till_tod)

InWindow(d, x) == Allowed(d) /\ x \in WindowTimes

\* instant a is strictly later than instant b
Later(a, b) == a.date > b.date \/ (a.date = b.date /\ a.tod > b.tod)

\* r is the first date strictly after d whose weekday is allowed
FirstAllowedAfter(d, r) ==
    /\ r > d
    /\ Allowed(r)
    /\ \A y \in (d + 1) .. (r - 1) : ~Allowed(y)

\* ---- C1 ---------------------------------------------------------------------
\* C1: the returned instant is strictly later than previous_fire_time, for
\* every window (since = till included) and every positive interval.
C1_NeverRegresses == Returned => Later(next_time, Prev)

\* ---- C2 ---------------------------------------------------------------------
\* C2 (as stated): whenever previous_fire_time is inside the window, the call
\* returns exactly previous_fire_time + interval and that instant is inside
\* the window.
C2_InWindowAdvancesByInterval ==
    (Returned /\ InWindow(Prev.date, Prev.tod)) =>
        /\ next_time.date = CandDate
        /\ next_time.tod = CandTod
        /\ InWindow(next_time.date, next_time.tod)

\* C2 (amended): whenever previous_fire_time is inside the window, the returned
\* instant is inside the window; it is exactly previous_fire_time + interval
\* when that candidate is inside the window, and otherwise (previous at till,
\* or closer to the end of the window than one interval) it is at time of day
\* since.
C2_InWindowStaysInWindow ==
    (Returned /\ InWindow(Prev.date, Prev.tod)) =>
        /\ InWindow(next_time.date, next_time.tod)
        /\ IF InWindow(CandDate, CandTod)
           THEN next_time.date = CandDate /\ next_time.tod = CandTod
           ELSE next_time.tod = since_tod

\* previous exactly at till of a non-wrapping window: the next opening
C2_Witness ==
    /\ Returned
    /\ InWindow(Prev.date, Prev.tod)
    /\ since_tod < till_tod
    /\ Prev.tod = till_tod
    /\ next_time.tod = since_tod
    /\ next_time.date > Prev.date

\* ---- C3 ---------------------------------------------------------------------
\* C3: a candidate that is inside the window is returned unchanged (same
\* date, same time of day), for non-wrapping and wrapping windows.
C3_CandidateUnchanged ==
    (Returned /\ InWindow(CandDate, CandTod)) =>
        /\ next_time.date = CandDate
        /\ next_time.tod = CandTod

\* a wrapping window, the candidate in its after-midnight part
C3_Witness ==
    /\ Returned
    /\ InWindow(CandDate, CandTod)
    /\ since_tod > till_tod
    /\ CandDate > Prev.date
    /\ CandTod <= till_tod
    /\ next_time.date = CandDate

\* ---- C4 ---------------------------------------------------------------------
\* C4: should_run_now(t) is true exactly when the weekday of t is allowed and
\* the time of day of t is in the window, both boundaries included.
C4_ShouldRunNow ==
    (pc = "checked") =>
        (run_now <=> InWindow(next_time.date, next_time.tod))

\* should_run_now answered True at the till boundary of a wrapping window
C4_Witness ==
    /\ pc = "checked"
    /\ run_now
    /\ since_tod > till_tod
    /\ next_time.tod = till_tod

\* ---- C5 ---------------------------------------------------------------------
\* C5: non-wrapping window (since <= till), candidate's time of day strictly
\* after till: the call returns since on the first allowed date strictly after
\* the candidate's date.
C5_PastTillNextAllowedDay ==
    (Returned /\ since_tod <= till_tod /\ CandTod > till_tod) =>
        /\ next_time.tod = since_tod
        /\ FirstAllowedAfter(CandDate, next_time.date)

\* ---- C6 ---------------------------------------------------------------------
\* C6: wrapping window, candidate on an allowed weekday with its time of day
\* strictly between till and since: the call returns the candidate's own date
\* at since.
C6_WrapSameDayReopen ==
    (/\ Returned
     /\ since_tod > till_tod
     /\ Allowed(CandDate)
     /\ till_tod < CandTod
     /\ CandTod < since_tod) =>
        /\ next_time.date = CandDate
        /\ next_time.tod = since_tod

C6_Witness ==
    /\ Returned
    /\ since_tod > till_tod
    /\ Allowed(CandDate)
    /\ till_tod < CandTod
    /\ CandTod < since_tod
    /\ next_time.date = CandDate
    /\ next_time.tod = since_tod

\* ---- C7 ---------------------------------------------------------------------
\* C7 (as stated): previous_fire_time on a weekday that is not allowed: the
\* call returns since on the first allowed date after previous_fire_time's
\* date.
C7_DisallowedPreviousSkips ==
    (Returned /\ ~Allowed(Prev.date)) =>
        /\ next_time.tod = since_tod
        /\ FirstAllowedAfter(Prev.date, next_time.date)

\* C7 (amended): candidate = previous_fire_time + interval on a weekday that is
\* not allowed: the call returns since on the first allowed date after the
\* candidate's date, whatever the time of day, wrapping window or not.
C7_DisallowedCandidateSkips ==
    (Returned /\ ~Allowed(CandDate)) =>
        /\ next_time.tod = since_tod
        /\ FirstAllowedAfter(CandDate, next_time.date)

\* previous and candidate on the same disallowed day, several days skipped
C7_Witness ==
    /\ Returned
    /\ ~Allowed(Prev.date)
    /\ CandDate = Prev.date
    /\ next_time.date > CandDate + 2
    /\ next_time.tod = since_tod

\* ---- C8 ---------------------------------------------------------------------
\* C8: if previous_fire_time carries timezone information, the returned
\* instant carries the same timezone information, on every path.
C8_TzinfoPreserved ==
    (Returned /\ Prev.tzinfo = "tz") => next_time.tzinfo = Prev.tzinfo

\* ---- C9 ---------------------------------------------------------------------
\* C9: the weekday of the returned instant is an allowed weekday.
C9_ReturnedWeekdayAllowed == Returned => Allowed(next_time.date)

\* the weekday search ran: the candidate's weekday was not allowed
C9_Witness ==
    /\ Returned
    /\ ~Allowed(CandDate)
    /\ Allowed(next_time.date)

\* ---- C10 --------------------------------------------------------------------
\* C10: for every window the configuration can express (any set of allowed
\* weekdays) the day-by-day weekday search ends and the call returns an
\* instant: it never runs off the end of the calendar.
C10_SearchAlwaysEnds == pc # "raised"

\* ---- C11 --------------------------------------------------------------------
\* the instant (d, x) lies strictly between the candidate and the returned
\* instant
BetweenCandAndResult(d, x) ==
    /\ d > CandDate \/ (d = CandDate /\ x > CandTod)
    /\ next_time.date > d \/ (next_time.date = d /\ next_time.tod > x)

NoOpeningSkipped ==
    \A d \in CandDate .. next_time.date : \A x \in TimesOfDay :
        BetweenCandAndResult(d, x) => ~InWindow(d, x)

\* C11 (as stated): when the candidate is outside the window, no instant
\* strictly between the candidate and the returned instant is inside the
\* window, for non-wrapping and for wrapping windows (the after-midnight part
\* [00:00, till] of an allowed weekday included).
C11_NextAllowedInstant ==
    (Returned /\ ~InWindow(CandDate, CandTod)) => NoOpeningSkipped

\* C11 (amended): the same, for non-wrapping windows and for wrapping windows
\* when the candidate's weekday is allowed; in a wrapping window a candidate
\* on a disallowed weekday is moved to since on the first allowed date, past
\* that date's after-midnight part.
C11_NextAllowedInstantSameDayOrNonWrap ==
    (/\ Returned
     /\ ~InWindow(CandDate, CandTod)
     /\ (since_tod <= till_tod \/ Allowed(CandDate))) => NoOpeningSkipped

\* a non-wrapping window, the candidate past till, at least one whole day
\* skipped before the returned opening
C11_Witness ==
    /\ Returned
    /\ ~InWindow(CandDate, CandTod)
    /\ since_tod < till_tod
    /\ CandTod > till_tod
    /\ next_time.date > CandDate + 1
    /\ next_time.tod = since_tod

\* ---- C12 --------------------------------------------------------------------
\* C12: non-wrapping window, candidate on an allowed weekday with its time of
\* day strictly before since: the call returns the candidate's own date at
\* since.
C12_OpensLaterSameDay ==
    (/\ Returned
     /\ since_tod <= till_tod
     /\ Allowed(CandDate)
     /\ CandTod < since_tod) =>
        /\ next_time.date = CandDate
        /\ next_time.tod = since_tod

C12_Witness ==
    /\ Returned
    /\ since_tod < till_tod
    /\ Allowed(CandDate)
    /\ CandTod < since_tod
    /\ next_time.date = CandDate
    /\ next_time.tod = since_tod

\* ---- C19 --------------------------------------------------------------------
\* the jobs inside the section between init() and exit() of an operation
InFlight == {j \in Jobs : job_pc[j] \in {"section", "call_exit"}}

\* C19: at most one device operation is in flight on the camera at any time,
\* for every interleaving of the jobs.
C19_OneOperationInFlight == Cardinality(InFlight) <= 1

\* ---- C20 --------------------------------------------------------------------
\* job j has executed capture() and has not yet ended its download_picture
MidSequence(j) ==
    \/ JobOps[job_op[j]] = "take_picture" /\ job_pc[j] = "call_exit"
    \/ JobOps[job_op[j]] = "download_picture"
           /\ job_pc[j] \in {"call_init", "super_init", "section", "call_exit"}

\* C20: between a job's capture() and the end of its download_picture() no
\* operation of another job is executed on the camera.
C20_SequenceExclusive ==
    \A j \in Jobs : \A k \in Jobs \ {j} :
        MidSequence(j) => job_pc[k] \notin {"section", "call_exit"}

\* ---- C13 --------------------------------------------------------------------
\* C13: in every reachable state of the scheduler, active_device_ids is
\* exactly the set of keys of the device_id -> JobSet map.
C13_ActiveEqualsJobSetKeys == active_device_ids = DOMAIN jobsets

\* one device active while the other has been evicted by a fault after having
\* joined, and a device has left by a tick
C13_Witness ==
    /\ active_device_ids # {}
    /\ faulted # {}
    /\ \E d \in Cameras : d \notin faulted /\ releases[d] >= 1

\* ---- C14 --------------------------------------------------------------------
\* the number of triggers the JobSet of d holds for config i
Triggers(d, i) ==
    Cardinality({k \in 1 .. Len(jobsets[d]) : jobsets[d][k] = i})

C15_TornDownExactlyOnce ==
    [][\A d \in Cameras :
          /\ releases'[d] - releases[d] =
                 IF d \in active_device_ids /\ d \notin active_device_ids'
                 THEN 1 ELSE 0
          /\ (d \in active_device_ids /\ d \notin active_device_ids')
                 => d \notin DOMAIN jobsets'
          /\ (\E c \in ConfigIds : <<d, c>> \in running' \ running)
                 => d \in active_device_ids
      ]_svars

\* a device that joined was found absent by a later tick and removed
C15_Witness ==
    /\ poll_status = "ok"
    /\ \E d \in Cameras :
          /\ d \notin poll_cameras
          /\ d \notin active_device_ids
          /\ d \notin faulted
          /\ adds[d] = 1
          /\ releases[d] = 1

C17_NoHandlesAfterEmptyPoll ==
    (poll_status = "ok" /\ poll_cameras = {}) =>
        /\ active_device_ids = {}
        /\ DOMAIN jobsets = {}
        /\ \A a \in Addresses : camera_device_cache[a] = NoCamera

\* ---- C18 --------------------------------------------------------------------
\* C18: a device poll never raises to its caller.
C18_PollNeverRaises == poll_status # "raised"

\* ---- C25 --------------------------------------------------------------------
\* job j has entered download_picture
Downloading(j) == JobOps[job_op[j]] = "download_picture"

\* C25: download_picture deletes the picture from the device only when
\* keep_on_device is false and only after the file was fetched and saved; when
\* fetching or saving failed, or keep_on_device is true, the picture is still
\* on the device when the operation has ended.
C25_DeleteOnlyAfterSave ==
    \A j \in Jobs :
        /\ picture[j] = "deleted" =>
               /\ ~keep_on_device[j]
               /\ fetched[j]
               /\ stored[j]
        /\ (Downloading(j) /\ job_pc[j] \in {"done", "raised"}
                /\ (keep_on_device[j] \/ ~fetched[j] \/ ~stored[j]))
               => picture[j] = "on_device"

\* one job has saved and deleted its picture, the other one failed between
\* fetching and saving and its picture is still on the device
C25_Witness ==
    \E j \in Jobs : \E k \in Jobs \ {j} :
        /\ job_pc[j] = "done"
        /\ picture[j] = "deleted"
        /\ Downloading(k)
        /\ job_pc[k] = "raised"
        /\ fetched[k]
        /\ ~stored[k]
        /\ ~keep_on_device[k]
        /\ picture[k] = "on_device"

\* ---- C26 --------------------------------------------------------------------
\* C26: an operation that has ended, normally or with an exception, has left
\* the device lock released: no job that has ended holds the lock.
C26_LockReleasedWhenOperationEnds ==
    \A j \in Jobs : job_pc[j] \in {"done", "raised"} => thread_lock # j

\* ---- C27 --------------------------------------------------------------------
\* C27: init() returns normally only with the lock held by the caller: a job
\* between its init() and the release in its exit() holds the lock.
C27_InitReturnsWithLockHeld ==
    \A j \in Jobs : job_pc[j] \in {"section", "call_exit"} => thread_lock = j

\* ---- C24 --------------------------------------------------------------------
\* the configuration gives a schedule window that is malformed: a weekday name
\* outside Mon..Sun (in any case of letters) or an hour that is no hour
MalformedWeekDays ==
    /\ config_dict.week_days # << >>
    /\ \E i \in 1 .. Len(config_dict.week_days[1]) :
          config_dict.week_days[1][i] \notin
              {"Mon", "mon", "MON", "Tue", "tue", "TUE", "Sun", "sun", "SUN"}

MalformedTod(k) ==
    /\ config_dict[k] # << >>
    /\ config_dict[k][1] \notin TimesOfDay

MalformedWindow ==
    MalformedWeekDays \/ MalformedTod("since_tod") \/ MalformedTod("till_tod")

\* the load has ended: the loop is past its last key, or an exception left it
LoadEnded == load_key > Len(KeyList) \/ load_exc # "none"

\* C24: loading a configuration whose schedule window is malformed ends with
\* TimelapseConfigError and yields no TimelapseConfig.
C24_MalformedWindowIsRejected ==
    (MalformedWindow /\ LoadEnded) => load_exc = "TimelapseConfigError"

\* ---- C23 --------------------------------------------------------------------
\* C23: the sinks are attempted once each in configured order, whatever the
\* earlier outcomes; a sink that succeeded keeps its copy; when the fan-out
\* has ended every sink has been attempted and the staged artifact is gone.
C23_EverySinkAttemptedOnce ==
    /\ attempt_log = [i \in 1 .. Len(attempt_log) |-> i]
    /\ \A i \in 1 .. Len(sinks) : sink_result[i] = "ok" => i \in stored_at
    /\ fan_pc \in {"cleanup", "done"} => Len(attempt_log) = Len(sinks)
    /\ fan_pc = "done" => ~staged

\* the fan-out has ended, the first of several sinks failed with the staged
\* file present and a later sink succeeded
C23_Witness ==
    /\ fan_pc = "done"
    /\ Len(sinks) >= 2
    /\ sink_result[1] \in {"OSError", "DataSaveError"}
    /\ \E i \in 2 .. Len(sinks) : sink_result[i] = "ok"

\* ---- C21 --------------------------------------------------------------------
\* C21: no capture starts at an instant that is outside the config's window.
C21_NoCaptureOutsideWindow == last_start # "out"

\* ---- C22 --------------------------------------------------------------------
\* the bound N on the concurrently Running jobs of one (device, config) pair
ConcurrencyBound == 2

====
